---- MODULE Spec2Model ----
(***************************************************************************)
(* Model of scripts/download_aorc.py: open the remote AORC store, subset   *)
(* it in time and space, reduce it to a cos(latitude)-weighted area mean,  *)
(* count missing hours and write the NetCDF subset and the area-mean CSV.  *)
(*                                                                         *)
(* Units.  Latitudes and longitudes are integers in hundredths of a        *)
(* degree (37.60 -> 3760).  Timestamps are integers in ticks, TicksPerHour *)
(* ticks to the hour, counted from TIME_START.  Cosines are integers in    *)
(* ten-thousandths (cos 60 deg -> 5000).  A weighted mean is kept as the   *)
(* exact fraction [num, den]; den = 0 stands for NaN.                   *)
(***************************************************************************)
EXTENDS Integers, Sequences, FiniteSets, TLC

VARIABLES
    \* the slice helper applied to drawn inputs
    coordinate, min_value, max_value, selected, selected_rev, slice_pc,
    \* the missing-hours metric applied to a drawn series
    actual_index, missing, qa_pc,
    \* the weighted mean applied to a drawn grid
    grid, mean_out, mean_pc,
    \* the remote store and the output directory (shared by all runs)
    ds, out_dir, nc_file, csv_file,
    \* one entry per run of main()
    pc, opens, warnings, error, lat_name, lon_name, subset, area_mean,
    missing_hours, max_timestamp, wrote

sliceVars == <<coordinate, min_value, max_value, selected, selected_rev, slice_pc>>
qaVars    == <<actual_index, missing, qa_pc>>
meanVars  == <<grid, mean_out, mean_pc>>
fileVars  == <<out_dir, nc_file, csv_file>>
runVars   == <<pc, opens, warnings, error, lat_name, lon_name, subset, area_mean,
               missing_hours, max_timestamp, wrote>>
mainVars  == <<ds, fileVars, runVars>>
vars      == <<sliceVars, qaVars, meanVars, mainVars>>

----------------------------------------------------------------------------
(* Bounds of the model *)

\* largest coordinate value / bound value drawn for the slice helper
CoordMax == 3
\* longest coordinate array drawn for the slice helper
MaxLen == 3
\* ticks to the hour: the resolution of a timestamp
TicksPerHour == 2
\* hours from TIME_START to TIME_END
WindowHours == 2
\* longest series drawn for the missing-hours metric
MaxSeries == 4
\* most time steps, and most longitude columns, of a grid drawn for the mean
MaxSteps == 2
MaxLon == 2
\* largest cell value of a grid drawn for the mean
MaxValue == 2
\* longest latitude / longitude array of a drawn remote store
MaxGrid == 2

----------------------------------------------------------------------------
(* The constants configuring a run *)

TIME_START == 0
TIME_END == TIME_START + WindowHours * TicksPerHour
LAT_MIN == 3760
LAT_MAX == 3785
LON_MIN == -8935
LON_MAX == -8905

Runs == {"A", "B"}

----------------------------------------------------------------------------
(* Sequences *)

Range(s) == {s[i] : i \in 1..Len(s)}

Reverse(s) == [i \in 1..Len(s) |-> s[Len(s) + 1 - i]]

\* all sequences over S of length lo..hi
SeqsOf(S, lo, hi) == UNION {[1..n -> S] : n \in lo..hi}

----------------------------------------------------------------------------
(* Label-range selection on a monotonic index, as apcp.sel(name=slice(a, b)) *)
(* evaluates it: a left bound for the slice start, a right bound for the     *)
(* slice stop, then a positional slice.                                      *)

IsMonotonicIncreasing(c) == \A i \in 1..(Len(c) - 1) : c[i] <= c[i + 1]

IsMonotonicDecreasing(c) == \A i \in 1..(Len(c) - 1) : c[i] >= c[i + 1]

\* searchsorted on an ascending array: the insertion position (0-based)
SearchSorted(c, label, side) ==
    Cardinality({i \in 1..Len(c) :
        IF side = "left" THEN c[i] < label ELSE c[i] <= label})

\* position of a slice bound; a decreasing index is searched reversed with the
\* side flipped
GetSliceBound(c, label, side) ==
    IF IsMonotonicIncreasing(c)
    THEN SearchSorted(c, label, side)
    ELSE Len(c) - SearchSorted(Reverse(c), label,
                               IF side = "left" THEN "right" ELSE "left")

\* the positional slice [start_slice, end_slice) (0-based) of a label slice
SliceIndexer(c, sl) ==
    [start_slice |-> GetSliceBound(c, sl.start, "left"),
     end_slice   |-> GetSliceBound(c, sl.stop, "right")]

\* c.sel(slice(sl.start, sl.stop)): the labels at the positions of the slice,
\* none when start_slice >= end_slice
Sel(c, sl) ==
    LET ix == SliceIndexer(c, sl)
    IN  SubSeq(c, ix.start_slice + 1, ix.end_slice)

\* mutant of _get_slice: the order guard is dropped
GetSliceNoGuard(lo, hi, c) == [start |-> lo, stop |-> hi]

\* _get_slice(min_value, max_value, coordinate)
GetSlice(lo, hi, c) ==
    LET ascending == c[1] <= c[Len(c)]
    IN  IF ascending THEN [start |-> lo, stop |-> hi]
                     ELSE [start |-> hi, stop |-> lo]


----------------------------------------------------------------------------
(* The area mean: subset.weighted(cos(deg2rad(lat))).mean(dim=(lat, lon))   *)

\* cos(deg2rad(lat)) in ten-thousandths, lat in hundredths of a degree
CosE4(lat) ==
    CASE lat = 0     -> 10000
      [] lat = 6000  -> 5000
      [] lat = -6000 -> 5000
      [] lat = 3750  -> 7934
      [] lat = 3770  -> 7912
      [] lat = 3790  -> 7891

\* mutant of the weights: every latitude row weighs the same
WeightsUniform(lats) == [i \in 1..Len(lats) |-> 10000]

\* weights = np.cos(np.deg2rad(subset[lat_name])): one weight per latitude row
Weights(lats) == [i \in 1..Len(lats) |-> CosE4(lats[i])]

RECURSIVE SumFn(_)
SumFn(f) ==
    IF DOMAIN f = {} THEN 0
    ELSE LET x == CHOOSE y \in DOMAIN f : TRUE
         IN  f[x] + SumFn([y \in DOMAIN f \ {x} |-> f[y]])

\* A grid g is [lat, nlon, nt, data], data[<<t, i, j>>] the value at time step
\* t, latitude row i, longitude column j.  The weights are broadcast across
\* the longitude columns; the mean of a time step is the weighted sum over
\* the sum of the weights, NaN (den = 0) where the weights sum to zero.
WeightedMean(g) ==
    LET w     == Weights(g.lat)
        cells == (1..Len(g.lat)) \X (1..g.nlon)
    IN  [t \in 1..g.nt |->
            [num |-> SumFn([c \in cells |-> w[c[1]] * g.data[<<t, c[1], c[2]>>]]),
             den |-> SumFn([c \in cells |-> w[c[1]]])]]

IsNaN(m) == m.den = 0

\* a < b for two means that are not NaN (denominators are positive)
Less(a, b) == a.num * b.den < b.num * a.den

\* area_mean_series.idxmax(): the position of the first maximum
IdxMax(series) ==
    CHOOSE i \in 1..Len(series) :
        /\ \A j \in 1..Len(series) : ~Less(series[i], series[j])
        /\ \A j \in 1..(i - 1) : Less(series[j], series[i])

----------------------------------------------------------------------------
(* The missing-hours metric                                                 *)

\* pd.date_range(TIME_START, TIME_END, freq="h"): every hour from the start
\* while it is not after the end
ExpectedIndex ==
    [k \in 1..((TIME_END - TIME_START) \div TicksPerHour + 1) |->
        TIME_START + (k - 1) * TicksPerHour]

\* expected_index.difference(actual_index): the entries of the first index
\* that the second does not hold
Difference(a, b) ==
    LET keep(x) == x \notin Range(b)
    IN  SelectSeq(a, keep)

\* mutant of the metric: the two lengths subtracted
MissingHoursByLength(actual) == Len(ExpectedIndex) - Len(actual)

\* missing_hours = len(expected_index.difference(actual_index))
MissingHours(actual) == Len(Difference(ExpectedIndex, actual))

----------------------------------------------------------------------------
(* The remote store                                                         *)

LatNames == {"latitude", "lat"}
LonNames == {"longitude", "lon"}
CoordNames == LatNames \cup LonNames

\* coordinate values of the drawn stores: below, inside and above the box
LatValues == {3750, 3770, 3790}
LonValues == {-8950, -8920}
\* timestamps of the drawn stores: before the window, its start and its end
TimeValues == {TIME_START - 1, TIME_START, TIME_END}

StrictlyIncreasing(c) == \A i \in 1..(Len(c) - 1) : c[i] < c[i + 1]
StrictlyDecreasing(c) == \A i \in 1..(Len(c) - 1) : c[i] > c[i + 1]

GridArrays(S) ==
    {c \in SeqsOf(S, 1, MaxGrid) : StrictlyIncreasing(c) \/ StrictlyDecreasing(c)}

LatArrays == GridArrays(LatValues)
LonArrays == GridArrays(LonValues)
TimeArrays == {c \in SeqsOf(TimeValues, 1, MaxGrid) : StrictlyIncreasing(c)}

\* the coordinates of the variable: an array for each name that is present
CoordMaps(P, La, Lo) ==
    {f \in [P -> La \cup Lo] :
        \A n \in P : f[n] \in (IF n \in LatNames THEN La ELSE Lo)}

Datasets(HasApcp, NameSets, La, Lo, Ti) ==
    {[has_apcp |-> h, coords |-> c, time |-> t] :
        h \in HasApcp, t \in Ti,
        c \in UNION {CoordMaps(P, La, Lo) : P \in NameSets}}

\* apcp = ds["apcp"]: the value stored at time position t, row i, column j
ApcpValue(t, i, j) == 4 * t + 2 * i + j

----------------------------------------------------------------------------
(* open_aorc_dataset and main, one step at a time, for run r               *)

None == <<>>
Some(x) == <<x>>

Fail(r, e) ==
    /\ pc' = [pc EXCEPT ![r] = "failed"]
    /\ error' = [error EXCEPT ![r] = e]

\* OUTPUT_DIR.mkdir(parents=True, exist_ok=True)
Mkdir(r) ==
    /\ pc[r] = "start"
    /\ out_dir' = TRUE
    /\ pc' = [pc EXCEPT ![r] = "open_consolidated"]
    /\ UNCHANGED <<sliceVars, qaVars, meanVars, ds, nc_file, csv_file, opens,
                   warnings, error, lat_name, lon_name, subset, area_mean,
                   missing_hours, max_timestamp, wrote>>

\* xr.open_zarr(mapper, consolidated=True, ...) returns
OpenConsolidatedOk(r) ==
    /\ pc[r] = "open_consolidated"
    /\ opens' = [opens EXCEPT ![r] = Append(@, [mode |-> "consolidated", ok |-> TRUE])]
    /\ pc' = [pc EXCEPT ![r] = "check_apcp"]
    /\ UNCHANGED <<sliceVars, qaVars, meanVars, ds, fileVars, warnings, error,
                   lat_name, lon_name, subset, area_mean, missing_hours,
                   max_timestamp, wrote>>

\* mutant: a failed consolidated open is fatal, no retry
OpenConsolidatedFailsNoRetry(r) ==
    /\ pc[r] = "open_consolidated"
    /\ opens' = [opens EXCEPT ![r] = Append(@, [mode |-> "consolidated", ok |-> FALSE])]
    /\ warnings' = [warnings EXCEPT ![r] = @ + 1]
    /\ Fail(r, "OpenError")
    /\ UNCHANGED <<sliceVars, qaVars, meanVars, ds, fileVars,
                   lat_name, lon_name, subset, area_mean, missing_hours,
                   max_timestamp, wrote>>

\* xr.open_zarr(mapper, consolidated=True, ...) raises: warn, go to the retry
OpenConsolidatedFails(r) ==
    /\ pc[r] = "open_consolidated"
    /\ opens' = [opens EXCEPT ![r] = Append(@, [mode |-> "consolidated", ok |-> FALSE])]
    /\ warnings' = [warnings EXCEPT ![r] = @ + 1]
    /\ pc' = [pc EXCEPT ![r] = "open_unconsolidated"]
    /\ UNCHANGED <<sliceVars, qaVars, meanVars, ds, fileVars, error,
                   lat_name, lon_name, subset, area_mean, missing_hours,
                   max_timestamp, wrote>>

\* xr.open_zarr(mapper, consolidated=False, ...) returns
OpenUnconsolidatedOk(r) ==
    /\ pc[r] = "open_unconsolidated"
    /\ opens' = [opens EXCEPT ![r] = Append(@, [mode |-> "unconsolidated", ok |-> TRUE])]
    /\ pc' = [pc EXCEPT ![r] = "check_apcp"]
    /\ UNCHANGED <<sliceVars, qaVars, meanVars, ds, fileVars, warnings, error,
                   lat_name, lon_name, subset, area_mean, missing_hours,
                   max_timestamp, wrote>>

\* xr.open_zarr(mapper, consolidated=False, ...) raises: the exception leaves
\* open_aorc_dataset and main
OpenUnconsolidatedFails(r) ==
    /\ pc[r] = "open_unconsolidated"
    /\ opens' = [opens EXCEPT ![r] = Append(@, [mode |-> "unconsolidated", ok |-> FALSE])]
    /\ Fail(r, "OpenError")
    /\ UNCHANGED <<sliceVars, qaVars, meanVars, ds, fileVars, warnings,
                   lat_name, lon_name, subset, area_mean, missing_hours,
                   max_timestamp, wrote>>

\* "apcp" in ds: return ds
CheckApcpOk(r) ==
    /\ pc[r] = "check_apcp"
    /\ ds.has_apcp
    /\ pc' = [pc EXCEPT ![r] = "resolve"]
    /\ UNCHANGED <<sliceVars, qaVars, meanVars, ds, fileVars, opens, warnings,
                   error, lat_name, lon_name, subset, area_mean, missing_hours,
                   max_timestamp, wrote>>

\* mutant: the variable check sits inside the try block, so a missing
\* variable after the consolidated open falls back to the second open
CheckApcpFailsRetries(r) ==
    /\ pc[r] = "check_apcp"
    /\ ~ds.has_apcp
    /\ IF Len(opens[r]) = 1
       THEN /\ pc' = [pc EXCEPT ![r] = "open_unconsolidated"]
            /\ warnings' = [warnings EXCEPT ![r] = @ + 1]
            /\ UNCHANGED error
       ELSE /\ Fail(r, "KeyError_apcp")
            /\ UNCHANGED warnings
    /\ UNCHANGED <<sliceVars, qaVars, meanVars, ds, fileVars, opens,
                   lat_name, lon_name, subset, area_mean, missing_hours,
                   max_timestamp, wrote>>

\* "apcp" not in ds: raise KeyError("Variable 'apcp' not found in dataset.")
CheckApcpFails(r) ==
    /\ pc[r] = "check_apcp"
    /\ ~ds.has_apcp
    /\ Fail(r, "KeyError_apcp")
    /\ UNCHANGED <<sliceVars, qaVars, meanVars, ds, fileVars, opens, warnings,
                   lat_name, lon_name, subset, area_mean, missing_hours,
                   max_timestamp, wrote>>

\* lat_name = "latitude" if "latitude" in apcp.coords else "lat"
ResolveLat(coords) == IF "latitude" \in DOMAIN coords THEN "latitude" ELSE "lat"

\* lon_name = "longitude" if "longitude" in apcp.coords else "lon"
ResolveLon(coords) == IF "longitude" \in DOMAIN coords THEN "longitude" ELSE "lon"

\* mutant: the check fails only when both coordinates are missing
CoordsMissingBoth(coords) ==
    /\ ResolveLat(coords) \notin DOMAIN coords
    /\ ResolveLon(coords) \notin DOMAIN coords

\* lat_name not in apcp.coords or lon_name not in apcp.coords
CoordsMissing(coords) ==
    \/ ResolveLat(coords) \notin DOMAIN coords
    \/ ResolveLon(coords) \notin DOMAIN coords

ResolveOk(r) ==
    /\ pc[r] = "resolve"
    /\ lat_name' = [lat_name EXCEPT ![r] = ResolveLat(ds.coords)]
    /\ lon_name' = [lon_name EXCEPT ![r] = ResolveLon(ds.coords)]
    /\ ~CoordsMissing(ds.coords)
    /\ pc' = [pc EXCEPT ![r] = "subset"]
    /\ UNCHANGED <<sliceVars, qaVars, meanVars, ds, fileVars, opens, warnings,
                   error, subset, area_mean, missing_hours, max_timestamp, wrote>>

\* raise KeyError("Could not find latitude/longitude coordinates in dataset")
ResolveFails(r) ==
    /\ pc[r] = "resolve"
    /\ lat_name' = [lat_name EXCEPT ![r] = ResolveLat(ds.coords)]
    /\ lon_name' = [lon_name EXCEPT ![r] = ResolveLon(ds.coords)]
    /\ CoordsMissing(ds.coords)
    /\ Fail(r, "KeyError_coords")
    /\ UNCHANGED <<sliceVars, qaVars, meanVars, ds, fileVars, opens, warnings,
                   subset, area_mean, missing_hours, max_timestamp, wrote>>

\* apcp.sel(time=slice(TIME_START, TIME_END), lat=_get_slice(...),
\* lon=_get_slice(...)): the labels kept on each axis and the position before
\* the first kept label
SubsetOf(d, la, lo) ==
    LET lats == d.coords[la]
        lons == d.coords[lo]
        tix  == SliceIndexer(d.time, [start |-> TIME_START, stop |-> TIME_END])
        iix  == SliceIndexer(lats, GetSlice(LAT_MIN, LAT_MAX, lats))
        jix  == SliceIndexer(lons, GetSlice(LON_MIN, LON_MAX, lons))
    IN  [time |-> SubSeq(d.time, tix.start_slice + 1, tix.end_slice),
         lat  |-> SubSeq(lats, iix.start_slice + 1, iix.end_slice),
         lon  |-> SubSeq(lons, jix.start_slice + 1, jix.end_slice),
         t0   |-> tix.start_slice,
         i0   |-> iix.start_slice,
         j0   |-> jix.start_slice]

Subset(r) ==
    /\ pc[r] = "subset"
    /\ subset' = [subset EXCEPT ![r] = Some(SubsetOf(ds, lat_name[r], lon_name[r]))]
    /\ pc' = [pc EXCEPT ![r] = "check_empty"]
    /\ UNCHANGED <<sliceVars, qaVars, meanVars, ds, fileVars, opens, warnings,
                   error, lat_name, lon_name, area_mean, missing_hours,
                   max_timestamp, wrote>>

\* mutant: the emptiness check looks at the latitude axis
IsEmptySubsetByLat(s) == Len(s.lat) = 0

\* subset.sizes.get("time", 0) == 0
IsEmptySubset(s) == Len(s.time) = 0

\* raise ValueError("No time steps found in requested subset.")
CheckEmptyFails(r) ==
    /\ pc[r] = "check_empty"
    /\ IsEmptySubset(subset[r][1])
    /\ Fail(r, "ValueError_empty")
    /\ UNCHANGED <<sliceVars, qaVars, meanVars, ds, fileVars, opens, warnings,
                   lat_name, lon_name, subset, area_mean, missing_hours,
                   max_timestamp, wrote>>

CheckEmptyOk(r) ==
    /\ pc[r] = "check_empty"
    /\ ~IsEmptySubset(subset[r][1])
    /\ pc' = [pc EXCEPT ![r] = "aggregate"]
    /\ UNCHANGED <<sliceVars, qaVars, meanVars, ds, fileVars, opens, warnings,
                   error, lat_name, lon_name, subset, area_mean, missing_hours,
                   max_timestamp, wrote>>

\* the subset as a grid of values
GridOf(s) ==
    [lat  |-> s.lat,
     nlon |-> Len(s.lon),
     nt   |-> Len(s.time),
     data |-> [c \in (1..Len(s.time)) \X (1..Len(s.lat)) \X (1..Len(s.lon)) |->
                  ApcpValue(c[1] + s.t0, c[2] + s.i0, c[3] + s.j0)]]

\* lat_radians, weights, area_mean
Aggregate(r) ==
    /\ pc[r] = "aggregate"
    /\ area_mean' = [area_mean EXCEPT ![r] = WeightedMean(GridOf(subset[r][1]))]
    /\ pc' = [pc EXCEPT ![r] = "qa"]
    /\ UNCHANGED <<sliceVars, qaVars, meanVars, ds, fileVars, opens, warnings,
                   error, lat_name, lon_name, subset, missing_hours,
                   max_timestamp, wrote>>

AllNaN(series) == \A i \in 1..Len(series) : IsNaN(series[i])

\* missing_hours, area_mean_series, max_timestamp, max_value, the two log lines
QA(r) ==
    /\ pc[r] = "qa"
    /\ missing_hours' = [missing_hours EXCEPT ![r] = MissingHours(subset[r][1].time)]
    /\ Len(area_mean[r]) > 0
    /\ max_timestamp' = [max_timestamp EXCEPT ![r] =
          IF AllNaN(area_mean[r]) THEN Some([nan |-> TRUE, at |-> 0])
          ELSE Some([nan |-> FALSE, at |-> subset[r][1].time[IdxMax(area_mean[r])]])]
    /\ pc' = [pc EXCEPT ![r] = "write_nc"]
    /\ UNCHANGED <<sliceVars, qaVars, meanVars, ds, fileVars, opens, warnings,
                   error, lat_name, lon_name, subset, area_mean, wrote>>

\* idxmax() of a series that is all NaN: it returns NaN with the older pandas
\* releases (the step above) and raises ValueError with the newer ones; of an
\* empty series it raises with every release
QAIdxMaxRaises(r) ==
    /\ pc[r] = "qa"
    /\ AllNaN(area_mean[r])
    /\ missing_hours' = [missing_hours EXCEPT ![r] = MissingHours(subset[r][1].time)]
    /\ Fail(r, "ValueError_idxmax")
    /\ UNCHANGED <<sliceVars, qaVars, meanVars, ds, fileVars, opens, warnings,
                   lat_name, lon_name, subset, area_mean, max_timestamp, wrote>>

\* what a run leaves at an output path
Written(r, n) == Some([by |-> r, complete |-> TRUE, rows |-> n])
Partial(r) == Some([by |-> r, complete |-> FALSE, rows |-> 0])

\* subset.to_dataset(name="apcp").to_netcdf(SUBSET_NETCDF)
WriteNetCDF(r) ==
    /\ pc[r] = "write_nc"
    /\ out_dir
    /\ nc_file' = Written(r, Len(subset[r][1].time))
    /\ wrote' = [wrote EXCEPT ![r] = @ \cup {"nc"}]
    /\ pc' = [pc EXCEPT ![r] = "write_csv"]
    /\ UNCHANGED <<sliceVars, qaVars, meanVars, ds, out_dir, csv_file, opens,
                   warnings, error, lat_name, lon_name, subset, area_mean,
                   missing_hours, max_timestamp>>

\* to_netcdf raises (permissions, disk space): the file is untouched or
\* left partly written
WriteNetCDFFails(r) ==
    /\ pc[r] = "write_nc"
    /\ nc_file' \in {nc_file, Partial(r)}
    /\ Fail(r, "OSError")
    /\ UNCHANGED <<sliceVars, qaVars, meanVars, ds, out_dir, csv_file, opens,
                   warnings, lat_name, lon_name, subset, area_mean,
                   missing_hours, max_timestamp, wrote>>

\* mutant: the CSV is written first
WriteCSVFirst(r) ==
    /\ pc[r] \in {"write_nc", "write_csv"}
    /\ out_dir
    /\ csv_file' = Written(r, Len(area_mean[r]))
    /\ wrote' = [wrote EXCEPT ![r] = @ \cup {"csv"}]
    /\ pc' = [pc EXCEPT ![r] = IF "nc" \in wrote[r] THEN "done" ELSE "write_nc"]
    /\ UNCHANGED <<sliceVars, qaVars, meanVars, ds, out_dir, nc_file, opens,
                   warnings, error, lat_name, lon_name, subset, area_mean,
                   missing_hours, max_timestamp>>

\* csv_df.to_csv(AREA_MEAN_CSV), then the "Done" log line
WriteCSV(r) ==
    /\ pc[r] = "write_csv"
    /\ out_dir
    /\ csv_file' = Written(r, Len(area_mean[r]))
    /\ wrote' = [wrote EXCEPT ![r] = @ \cup {"csv"}]
    /\ pc' = [pc EXCEPT ![r] = "done"]
    /\ UNCHANGED <<sliceVars, qaVars, meanVars, ds, out_dir, nc_file, opens,
                   warnings, error, lat_name, lon_name, subset, area_mean,
                   missing_hours, max_timestamp>>

\* to_csv raises
WriteCSVFails(r) ==
    /\ pc[r] = "write_csv"
    /\ csv_file' \in {csv_file, Partial(r)}
    /\ Fail(r, "OSError")
    /\ UNCHANGED <<sliceVars, qaVars, meanVars, ds, out_dir, nc_file, opens,
                   warnings, lat_name, lon_name, subset, area_mean,
                   missing_hours, max_timestamp, wrote>>

Next ==
    \E r \in Runs :
        \/ Mkdir(r)
        \/ OpenConsolidatedOk(r)
        \/ OpenConsolidatedFails(r)
        \/ OpenUnconsolidatedOk(r)
        \/ OpenUnconsolidatedFails(r)
        \/ CheckApcpOk(r)
        \/ CheckApcpFails(r)
        \/ ResolveOk(r)
        \/ ResolveFails(r)
        \/ Subset(r)
        \/ CheckEmptyOk(r)
        \/ CheckEmptyFails(r)
        \/ Aggregate(r)
        \/ QA(r)
        \/ QAIdxMaxRaises(r)
        \/ WriteNetCDF(r)
        \/ WriteNetCDFFails(r)
        \/ WriteCSV(r)
        \/ WriteCSVFails(r)

----------------------------------------------------------------------------
(* Initial states                                                           *)

SliceIdle ==
    /\ coordinate = <<0>> /\ min_value = 0 /\ max_value = 0
    /\ selected = <<>> /\ selected_rev = <<>> /\ slice_pc = "off"

QAIdle == actual_index = <<>> /\ missing = 0 /\ qa_pc = "off"

IdleGrid == [lat |-> <<0>>, nlon |-> 1, nt |-> 1, data |-> [c \in {<<1, 1, 1>>} |-> 0]]

MeanIdle == grid = IdleGrid /\ mean_out = <<>> /\ mean_pc = "off"

\* the runs in `active` are about to enter main(); no output file exists yet
MainInit(active) ==
    /\ out_dir = FALSE
    /\ nc_file = None
    /\ csv_file = None
    /\ pc = [r \in Runs |-> IF r \in active THEN "start" ELSE "off"]
    /\ opens = [r \in Runs |-> <<>>]
    /\ warnings = [r \in Runs |-> 0]
    /\ error = [r \in Runs |-> ""]
    /\ lat_name = [r \in Runs |-> ""]
    /\ lon_name = [r \in Runs |-> ""]
    /\ subset = [r \in Runs |-> None]
    /\ area_mean = [r \in Runs |-> <<>>]
    /\ missing_hours = [r \in Runs |-> 0]
    /\ max_timestamp = [r \in Runs |-> None]
    /\ wrote = [r \in Runs |-> {}]

MainIdle ==
    /\ ds = [has_apcp |-> TRUE, coords |-> <<>>, time |-> <<>>]
    /\ MainInit({})

AllDatasets == Datasets(BOOLEAN, SUBSET CoordNames, LatArrays, LonArrays, TimeArrays)

\* one run of main() against any drawn store
Init ==
    /\ SliceIdle /\ QAIdle /\ MeanIdle
    /\ ds \in AllDatasets
    /\ MainInit({"A"})

Spec == Init /\ [][Next]_vars

\* the stores of the two-run specification: one latitude inside the box or
\* one above it, one timestamp inside the window or one before it
RaceDatasets ==
    Datasets(BOOLEAN, {{"lat", "lon"}, {"lat"}}, {<<3770>>, <<3790>>},
             {<<-8920>>}, {<<TIME_START>>, <<TIME_START - 1>>})

\* two runs of main() against the same store and the same output paths
InitRace ==
    /\ SliceIdle /\ QAIdle /\ MeanIdle
    /\ ds \in RaceDatasets
    /\ MainInit(Runs)

SpecRace == InitRace /\ [][Next]_vars

----------------------------------------------------------------------------
(* Properties of a run of main()                                            *)

Names == DOMAIN ds.coords

Terminated(r) == pc[r] \in {"done", "failed"}

LastOpenOk(r) == Len(opens[r]) >= 1 /\ opens[r][Len(opens[r])].ok

\* smallest and largest value of a monotonic array
Coverage(c) == [lo |-> IF c[1] <= c[Len(c)] THEN c[1] ELSE c[Len(c)],
                hi |-> IF c[1] <= c[Len(c)] THEN c[Len(c)] ELSE c[1]]

Disjoint(lo, hi, c) == hi < Coverage(c).lo \/ Coverage(c).hi < lo

\* the bounding box lies entirely outside the grid of the store
BoxOutside(r) ==
    \/ Disjoint(LAT_MIN, LAT_MAX, ds.coords[lat_name[r]])
    \/ Disjoint(LON_MIN, LON_MAX, ds.coords[lon_name[r]])

TimeIntersects ==
    \E i \in 1..Len(ds.time) : TIME_START <= ds.time[i] /\ ds.time[i] <= TIME_END

NotWrittenBy(r) ==
    /\ wrote[r] = {}
    /\ nc_file = None \/ nc_file[1].by # r
    /\ csv_file = None \/ csv_file[1].by # r

\* C2 as stated: a run whose box lies outside the grid, its time window
\* meeting the store, ends with the "empty subset" error and writes no file
C2_Original ==
    \A r \in Runs :
        (subset[r] # None /\ BoxOutside(r) /\ TimeIntersects /\ Terminated(r)) =>
            /\ error[r] = "ValueError_empty"
            /\ NotWrittenBy(r)

\* the outcome of such a run with a pandas whose idxmax returns NaN: the run
\* completes and both files are its own
C2_BothFilesWrittenOutsideBox ==
    /\ subset["A"] # None /\ BoxOutside("A") /\ TimeIntersects
    /\ pc["A"] = "done" /\ error["A"] = ""
    /\ AllNaN(area_mean["A"])
    /\ wrote["A"] = {"nc", "csv"}

\* C4: the consolidated open comes first; the unconsolidated open is made,
\* once and after one warning, exactly when the first raised; the open stage
\* fails only when the second open raised; there is no third attempt
C4_OpenFallback ==
    \A r \in Runs :
        LET o == opens[r] IN
        /\ Len(o) <= 2
        /\ pc[r] \notin {"off", "start", "open_consolidated"} => Len(o) >= 1
        /\ Len(o) >= 1 => o[1].mode = "consolidated"
        /\ Len(o) = 2 => o[2].mode = "unconsolidated" /\ ~o[1].ok
        /\ (Len(o) >= 1 /\ ~o[1].ok) =>
              /\ warnings[r] = 1
              /\ pc[r] = "open_unconsolidated" \/ Len(o) = 2
        /\ (Len(o) >= 1 /\ o[1].ok) => (Len(o) = 1 /\ warnings[r] = 0)
        /\ error[r] = "OpenError" <=> (Len(o) = 2 /\ ~o[2].ok)

\* C4 witness: the first open raised, the second returned, the run went on
C4_Witness ==
    /\ Len(opens["A"]) = 2
    /\ ~opens["A"][1].ok /\ opens["A"][2].ok
    /\ warnings["A"] = 1
    /\ pc["A"] = "done"

\* C5: a subset with no time step ends the run with the "empty subset" error
\* before the mean, the metrics and the writes; a run at a write step has a
\* subset with a time step
C5_EmptySubsetIsFatal ==
    \A r \in Runs :
        subset[r] # None =>
            /\ Len(subset[r][1].time) = 0 =>
                  /\ pc[r] \in {"check_empty", "failed"}
                  /\ pc[r] = "failed" => error[r] = "ValueError_empty"
                  /\ area_mean[r] = <<>> /\ max_timestamp[r] = None
                  /\ NotWrittenBy(r)
            /\ (pc[r] \in {"write_nc", "write_csv", "done"} \/ wrote[r] # {}) =>
                  Len(subset[r][1].time) >= 1

\* C5 witness: the store has no timestamp in the window, the run has failed
\* on the check and no file exists
C5_Witness ==
    /\ subset["A"] # None
    /\ Len(subset["A"][1].time) = 0
    /\ Len(subset["A"][1].lat) > 0
    /\ pc["A"] = "failed" /\ error["A"] = "ValueError_empty"
    /\ nc_file = None /\ csv_file = None

\* C6: a store without "apcp" fails the run with the "missing variable" error
\* right after the open that returned it, with no further open; only a store
\* with "apcp" reaches the subsetting
C6_MissingVariableIsFatal ==
    \A r \in Runs :
        /\ error[r] = "KeyError_apcp" =>
              ~ds.has_apcp /\ LastOpenOk(r) /\ subset[r] = None /\ NotWrittenBy(r)
        /\ (~ds.has_apcp /\ LastOpenOk(r)) =>
              /\ pc[r] \in {"check_apcp", "failed"}
              /\ pc[r] = "failed" => error[r] = "KeyError_apcp"
              /\ opens[r][1].ok => Len(opens[r]) = 1
        /\ pc[r] \in {"resolve", "subset", "check_empty", "aggregate", "qa",
                      "write_nc", "write_csv", "done"} => ds.has_apcp

\* C6 witness: the consolidated open returned a store without "apcp" and the
\* run failed after that single open
C6_Witness ==
    /\ ~ds.has_apcp
    /\ Len(opens["A"]) = 1 /\ opens["A"][1].ok
    /\ error["A"] = "KeyError_apcp"

NeitherSpelling == LatNames \cap Names = {} \/ LonNames \cap Names = {}

\* C7: each name resolves to the long spelling if present, else the short
\* one, independently; the run fails with "coordinate not found" exactly when
\* an axis has neither spelling, before any selection or write
C7_CoordinateNames ==
    \A r \in Runs :
        /\ error[r] = "KeyError_coords" => lat_name[r] # ""
        /\ lat_name[r] # "" =>
              /\ "latitude" \in Names => lat_name[r] = "latitude"
              /\ ("latitude" \notin Names /\ "lat" \in Names) => lat_name[r] = "lat"
              /\ "longitude" \in Names => lon_name[r] = "longitude"
              /\ ("longitude" \notin Names /\ "lon" \in Names) => lon_name[r] = "lon"
              /\ error[r] = "KeyError_coords" <=> NeitherSpelling
              /\ NeitherSpelling =>
                    pc[r] = "failed" /\ subset[r] = None /\ NotWrittenBy(r)

\* C7 witness: a mixed pair, "latitude" with "lon", is accepted and the run
\* selects on it
C7_Witness ==
    /\ Names = {"latitude", "lon"}
    /\ lat_name["A"] = "latitude" /\ lon_name["A"] = "lon"
    /\ subset["A"] # None

\* C10: a run writes the NetCDF file, then the CSV file; no run has written
\* its CSV without having completed its NetCDF write
C10_NetCDFBeforeCSV ==
    \A r \in Runs :
        /\ "csv" \in wrote[r] => "nc" \in wrote[r]
        /\ pc[r] = "write_csv" => "nc" \in wrote[r]
        /\ (csv_file # None /\ csv_file[1].by = r) => "nc" \in wrote[r]

\* C10 witness: both runs have finished, the NetCDF file is one run's and the
\* CSV file the other's
C10_Witness ==
    /\ pc["A"] = "done" /\ pc["B"] = "done"
    /\ nc_file[1].complete /\ csv_file[1].complete
    /\ nc_file[1].by # csv_file[1].by

\* a run failed between its two writes: the NetCDF file is its own, the CSV
\* file is the other run's (stale) or absent
C10_FailedBetweenWrites ==
    /\ pc["A"] = "failed" /\ error["A"] = "OSError"
    /\ wrote["A"] = {"nc"}
    /\ nc_file = Written("A", 1)
    /\ csv_file = None \/ csv_file[1].by = "B"

----------------------------------------------------------------------------
(* The slice helper applied to drawn inputs *)

MonotonicArrays ==
    {c \in SeqsOf(0..CoordMax, 1, MaxLen) :
        IsMonotonicIncreasing(c) \/ IsMonotonicDecreasing(c)}

InitSlice ==
    /\ coordinate \in MonotonicArrays
    /\ min_value \in 0..CoordMax
    /\ max_value \in min_value..CoordMax
    /\ selected = <<>>
    /\ selected_rev = <<>>
    /\ slice_pc = "call"
    /\ QAIdle /\ MeanIdle /\ MainIdle

\* select on the array as stored, and the same call on the reversed array
Select ==
    /\ slice_pc = "call"
    /\ selected' = Sel(coordinate, GetSlice(min_value, max_value, coordinate))
    /\ selected_rev' = Sel(Reverse(coordinate),
                           GetSlice(min_value, max_value, Reverse(coordinate)))
    /\ slice_pc' = "done"
    /\ UNCHANGED <<coordinate, min_value, max_value, qaVars, meanVars, mainVars>>

NextSlice == Select

SpecSlice == InitSlice /\ [][NextSlice]_vars

InRange(c) == {c[i] : i \in {j \in 1..Len(c) : min_value <= c[j] /\ c[j] <= max_value}}

\* C1: the selected set is {c in C : min <= c <= max}, the same on C and on
\* reverse(C)
C1_OrderIndependent ==
    slice_pc = "done" =>
        /\ Range(selected) = Range(selected_rev)
        /\ Range(selected) = InRange(coordinate)

\* C1 witness: a strictly descending array with a proper, non-empty selection
C1_Witness ==
    /\ slice_pc = "done"
    /\ Len(coordinate) = 3
    /\ coordinate[1] > coordinate[2] /\ coordinate[2] > coordinate[3]
    /\ Len(selected) = 2

Overlaps == /\ min_value <= Coverage(coordinate).hi
            /\ Coverage(coordinate).lo <= max_value

\* C3 as stated: bounds overlapping the coverage interval give a non-empty
\* selection
C3_Original ==
    (slice_pc = "done" /\ Overlaps) => selected # <<>>

\* C3 as amended: bounds containing at least one coordinate value give a
\* non-empty selection, on ascending and descending arrays alike
C3_NonEmptyWhenValueInRange ==
    (slice_pc = "done" /\ InRange(coordinate) # {}) => selected # <<>>

\* C3 witness: a descending array, one of its values inside the bounds
C3_Witness ==
    /\ slice_pc = "done"
    /\ coordinate[1] > coordinate[Len(coordinate)]
    /\ InRange(coordinate) # {}
    /\ selected # <<>>

----------------------------------------------------------------------------
(* The missing-hours metric applied to drawn series                         *)

\* timestamps a series may hold: on and off the hour, inside the window and
\* one tick outside it; a series is in time order and may repeat a timestamp
SeriesValues == (TIME_START - 1)..(TIME_END + 1)

InitQA ==
    /\ actual_index \in {c \in SeqsOf(SeriesValues, 0, MaxSeries) : IsMonotonicIncreasing(c)}
    /\ missing = 0
    /\ qa_pc = "call"
    /\ SliceIdle /\ MeanIdle /\ MainIdle

CountMissing ==
    /\ qa_pc = "call"
    /\ missing' = MissingHours(actual_index)
    /\ qa_pc' = "done"
    /\ UNCHANGED <<actual_index, sliceVars, meanVars, mainVars>>

NextQA == CountMissing

SpecQA == InitQA /\ [][NextQA]_vars

\* the hours of the window
ExpectedSet == {t \in TIME_START..TIME_END : (t - TIME_START) % TicksPerHour = 0}

\* the hours of the window absent from the series
RemovedHours == ExpectedSet \ Range(actual_index)

\* C8: the metric is the number of window hours absent from the series: zero
\* when every hour is there, k when k hours were removed, whatever else
\* (off-hour, outside the window, repeated) the series holds
C8_MissingHoursIsSetDifference ==
    qa_pc = "done" =>
        /\ missing = Cardinality(RemovedHours)
        /\ (ExpectedSet \subseteq Range(actual_index)) => missing = 0

\* C8 witness: one hour removed, and the series also holds a repeated
\* timestamp and one that is not an hour of the window
C8_Witness ==
    /\ qa_pc = "done"
    /\ Cardinality(RemovedHours) = 1
    /\ missing = 1
    /\ Range(actual_index) \ ExpectedSet # {}
    /\ Cardinality(Range(actual_index)) < Len(actual_index)

----------------------------------------------------------------------------
(* The weighted mean applied to drawn grids                                 *)

\* grids with one or two latitude rows at 0 and 60 degrees; the value of a
\* cell is its row's value plus a step per time step plus a step per column
MeanGrids ==
    UNION {
        {[lat |-> la, nlon |-> nlon, nt |-> nt,
          data |-> [c \in (1..nt) \X (1..Len(la)) \X (1..nlon) |->
                       rv[c[2]] + tstep * (c[1] - 1) + step * (c[3] - 1)]] :
            rv \in [1..Len(la) -> 0..MaxValue], tstep \in {0, 1}, step \in {0, 1}} :
        la \in SeqsOf({0, 6000}, 1, 2), nlon \in 1..MaxLon, nt \in 1..MaxSteps}

InitMean ==
    /\ grid \in MeanGrids
    /\ mean_out = <<>>
    /\ mean_pc = "call"
    /\ SliceIdle /\ QAIdle /\ MainIdle

Reduce ==
    /\ mean_pc = "call"
    /\ mean_out' = WeightedMean(grid)
    /\ mean_pc' = "done"
    /\ UNCHANGED <<grid, sliceVars, qaVars, mainVars>>

NextMean == Reduce

SpecMean == InitMean /\ [][NextMean]_vars

\* the grid has a row at 0 degrees and a row at 60 degrees, and at time step t
\* every cell of a row holds the same value
TwoRowCase(t) ==
    /\ Range(grid.lat) = {0, 6000}
    /\ \A i \in 1..2 : \A j \in 1..grid.nlon :
          grid.data[<<t, i, j>>] = grid.data[<<t, i, 1>>]

RowValue(t, lat) ==
    grid.data[<<t, CHOOSE i \in 1..2 : grid.lat[i] = lat, 1>>]

\* C9: one mean per time step; with rows at 0 and 60 degrees holding a and b
\* the mean is (2a + b) / 3, whatever the number of columns and the row order
C9_CosLatWeightedMean ==
    mean_pc = "done" =>
        /\ Len(mean_out) = grid.nt
        /\ \A t \in 1..grid.nt :
              TwoRowCase(t) =>
                  /\ mean_out[t].den > 0
                  /\ 3 * mean_out[t].num =
                        (2 * RowValue(t, 0) + RowValue(t, 6000)) * mean_out[t].den

\* C9 witness: two columns, two time steps, the 60-degree row stored first,
\* the two rows holding different values
C9_Witness ==
    /\ mean_pc = "done"
    /\ grid.lat = <<6000, 0>>
    /\ grid.nlon = 2 /\ grid.nt = 2
    /\ TwoRowCase(1) /\ TwoRowCase(2)
    /\ RowValue(1, 0) = 2 /\ RowValue(1, 6000) = 1
    /\ mean_out[1].num * 3 = 5 * mean_out[1].den

====
